---- MODULE Spec2Model ----
(***************************************************************************)
(* Model of the ProfAI answer pipeline: ResponseValidator                  *)
(* (utils/response_validator.py), LLMService.get_general_response          *)
(* (services/llm_service.py), ChatService.ask_question and                 *)
(* ChatService.update_with_course_content (services/chat_service.py),      *)
(* DocumentProcessor.extract_course_documents                              *)
(* (services/document_service.py) and AudioService.stream_audio_from_text  *)
(* (services/audio_service.py).                                            *)
(*                                                                         *)
(* A Python str is a sequence of one-character strings.  Python's None is  *)
(* the value NoneValue, which is no sequence of characters.                *)
(***************************************************************************)
EXTENDS Integers, Sequences, FiniteSets, TLC

VARIABLES
  is_rag_active,   \* ChatService.is_rag_active
  rag_service,     \* ChatService.rag_service: "RAGService" or "None"
  vector_store,    \* ChatService.vector_store: "VectorStore" or "None"
  req,             \* the ask_question call in flight (its locals and position)
  index,           \* the chunks the shared vector store holds
  upd,             \* the update_with_course_content call in flight
  audio,           \* the stream_audio_from_text generator in flight
  v_response,      \* validator harness: the response argument
  v_fallback,      \* validator harness: the fallback_message argument
  v_result,        \* validator harness: outcome of validate_and_sanitize
  v_check,         \* validator harness: outcome of is_valid_response or
                   \* of sanitize_response
  courses_file,    \* the courses saved at config.OUTPUT_JSON_PATH
  pdf_runs,        \* per worker: the process_uploaded_pdfs call in flight
  returned_courses \* the courses process_uploaded_pdfs has returned

vars ==
  <<is_rag_active, rag_service, vector_store, req, index, upd, audio,
    v_response, v_fallback, v_result, v_check,
    courses_file, pdf_runs, returned_courses>>

chat_vars == <<is_rag_active, rag_service, vector_store, req, index, upd, audio>>
chat_vars_but_audio == <<is_rag_active, rag_service, vector_store, req, index, upd>>
validator_vars == <<v_response, v_fallback, v_result, v_check>>
document_vars == <<courses_file, pdf_runs, returned_courses>>

----------------------------------------------------------------------------
(* Characters and Python's character classes *)

LowerSeq == <<"a", "b", "c", "d", "e", "f", "g", "h", "i", "j", "k", "l", "m", "n", "o", "p", "q", "r", "s", "t", "u", "v", "w", "x", "y", "z">>
UpperSeq == <<"A", "B", "C", "D", "E", "F", "G", "H", "I", "J", "K", "L", "M", "N", "O", "P", "Q", "R", "S", "T", "U", "V", "W", "X", "Y", "Z">>

Range(f) == {f[i] : i \in DOMAIN f}

Lower == Range(LowerSeq)
Upper == Range(UpperSeq)
Digits == {"0", "1", "2", "3", "4", "5", "6", "7", "8", "9"}

\* Python None (a value that is not a str)
NoneValue == <<"<None>">>

\* regex \s, str.strip(), str.split(): whitespace
IsSpace(c) == c \in {" ", "\t", "\n", "\r"}

\* str.isalpha()
IsAlpha(c) == c \in Lower \cup Upper

\* regex \w
IsWordChar(c) == IsAlpha(c) \/ c \in Digits \/ c = "_"

\* regex class [\W_] of GARBAGE_PATTERNS[0]
IsSpecialChar(c) == ~IsWordChar(c) \/ c = "_"

\* the negated class of GARBAGE_PATTERNS[2] excludes a-z, A-Z and the Indic and
\* Arabic blocks; every other character is "not readable"
IsReadableChar(c) == c \in Lower \cup Upper

\* str.lower() on one character
CharLower(c) ==
  IF c \in Upper THEN LowerSeq[CHOOSE i \in DOMAIN UpperSeq : UpperSeq[i] = c] ELSE c

\* regex class [!?.] of sanitize_response
IsRepeatPunct(c) == c \in {"!", "?", "."}

\* the characters of word.strip('.,!?;:')
WordStripChars == {".", ",", "!", "?", ";", ":"}

----------------------------------------------------------------------------
(* Fixed texts of the program *)

\* chat_service.py: fallback_message of the grounded call's validation
RAG_FALLBACK_MESSAGE ==
  <<
    "I", " ", "a", "p", "o", "l", "o", "g", "i", "z", "e", ",", " ", "b", "u", "t", " ", "I",
    " ", "e", "n", "c", "o", "u", "n", "t", "e", "r", "e", "d", " ", "a", "n", " ", "i", "s",
    "s", "u", "e", " ", "g", "e", "n", "e", "r", "a", "t", "i", "n", "g", " ", "a", " ", "p",
    "r", "o", "p", "e", "r", " ", "r", "e", "s", "p", "o", "n", "s", "e", ".", " ", "P", "l",
    "e", "a", "s", "e", " ", "t", "r", "y", " ", "a", "s", "k", "i", "n", "g", " ", "y", "o",
    "u", "r", " ", "q", "u", "e", "s", "t", "i", "o", "n", " ", "a", "g", "a", "i", "n", "."
  >>

\* response_validator.py: the generic apology
GENERIC_APOLOGY ==
  <<
    "I", " ", "a", "p", "o", "l", "o", "g", "i", "z", "e", ",", " ", "b", "u", "t", " ", "I",
    " ", "e", "n", "c", "o", "u", "n", "t", "e", "r", "e", "d", " ", "a", "n", " ", "i", "s",
    "s", "u", "e", " ", "g", "e", "n", "e", "r", "a", "t", "i", "n", "g", " ", "a", " ", "p",
    "r", "o", "p", "e", "r", " ", "r", "e", "s", "p", "o", "n", "s", "e", ".", " ", "P", "l",
    "e", "a", "s", "e", " ", "t", "r", "y", " ", "r", "e", "p", "h", "r", "a", "s", "i", "n",
    "g", " ", "y", "o", "u", "r", " ", "q", "u", "e", "s", "t", "i", "o", "n", "."
  >>

\* llm_service.py: what get_general_response returns when the API call raises
LLM_ERROR_MESSAGE ==
  <<
    "I", " ", "a", "m", " ", "s", "o", "r", "r", "y", ",", " ", "I", " ", "c", "o", "u", "l",
    "d", "n", "'", "t", " ", "p", "r", "o", "c", "e", "s", "s", " ", "t", "h", "a", "t", " ",
    "r", "e", "q", "u", "e", "s", "t", " ", "a", "t", " ", "t", "h", "e", " ", "m", "o", "m",
    "e", "n", "t", "."
  >>

\* chat_service.py: the phrase searched for in the validated grounded answer
SENTINEL ==
  <<
    "I", " ", "c", "a", "n", "n", "o", "t", " ", "f", "i", "n", "d", " ", "t", "h", "e", " ",
    "a", "n", "s", "w", "e", "r"
  >>

----------------------------------------------------------------------------
(* ResponseValidator (utils/response_validator.py) *)

OnlySpecialMinLen == 10      \* {10,} of GARBAGE_PATTERNS[0]
SameCharMinRepeats == 20     \* \1{20,} of GARBAGE_PATTERNS[1]: 20 repeats AFTER the first
NoReadableMinLen == 50       \* {50,} of GARBAGE_PATTERNS[2]
DefaultMinLength == 5        \* min_length: int = 5
DefaultMaxRepetition == 5    \* max_repetition: int = 5
MinWordsForRepetition == 10  \* if len(words) > 10
MinCharsForDensity == 20     \* if total_chars > 20
PunctRunCap == 3             \* r'\1\1\1'
PunctRunMin == 4             \* {4,}

\* s.strip(chars): drop leading and trailing characters satisfying the class
StripSet(s, cs) ==
  LET keep == {i \in 1..Len(s) : s[i] \notin cs}
  IN  IF keep = {} THEN <<>>
      ELSE SubSeq(s, CHOOSE i \in keep : \A j \in keep : i <= j,
                     CHOOSE i \in keep : \A j \in keep : i >= j)

\* str.strip()
Strip(s) == StripSet(s, {" ", "\t", "\n", "\r"})

\* str.lower()
LowerStr(s) == [i \in 1..Len(s) |-> CharLower(s[i])]

\* concatenation of the sequences pieces[lo..hi], in order (balanced, so that the
\* evaluation depth stays logarithmic in the text length)
RECURSIVE Flatten(_, _, _)
Flatten(pieces, lo, hi) ==
  IF lo > hi THEN <<>>
  ELSE IF lo = hi THEN pieces[lo]
  ELSE LET mid == (lo + hi) \div 2
       IN  Flatten(pieces, lo, mid) \o Flatten(pieces, mid + 1, hi)

\* the first index of the word (maximal run of non-whitespace) that contains i
WordStart(s, i) ==
  CHOOSE j \in 1..i :
    /\ \A k \in j..i : ~IsSpace(s[k])
    /\ j = 1 \/ IsSpace(s[j - 1])

\* the first index of the maximal run of [!?.] that contains i
PunctRunStart(s, i) ==
  CHOOSE j \in 1..i :
    /\ \A k \in j..i : IsRepeatPunct(s[k])
    /\ j = 1 \/ ~IsRepeatPunct(s[j - 1])

\* the last index of the maximal run of [!?.] that contains i
PunctRunEnd(s, i) ==
  CHOOSE j \in i..Len(s) :
    /\ \A k \in i..j : IsRepeatPunct(s[k])
    /\ j = Len(s) \/ ~IsRepeatPunct(s[j + 1])

IsNonSpace(c) == ~IsSpace(c)

\* str.split(): the maximal runs of non-whitespace characters, in order
Split(s) ==
  Flatten([i \in 1..Len(s) |->
             IF IsNonSpace(s[i]) /\ (i = Len(s) \/ IsSpace(s[i + 1]))
             THEN <<SubSeq(s, WordStart(s, i), i)>>
             ELSE <<>>],
          1, Len(s))

\* re.search(r'^[\W_]{10,}$', response)
MatchesOnlySpecial(s) ==
  Len(s) >= OnlySpecialMinLen /\ \A i \in 1..Len(s) : IsSpecialChar(s[i])

\* re.search(r'(.)\1{20,}', response): '.' matches any character but a newline
MatchesSameCharRun(s) ==
  \E i \in 1..(Len(s) - SameCharMinRepeats) :
    /\ s[i] # "\n"
    /\ \A j \in 1..SameCharMinRepeats : s[i + j] = s[i]

\* re.search(r'^[^a-zA-Z...]{50,}$', response)
MatchesNoReadable(s) ==
  Len(s) >= NoReadableMinLen /\ \A i \in 1..Len(s) : ~IsReadableChar(s[i])

\* for pattern in GARBAGE_PATTERNS: if re.search(pattern, response)
MatchesGarbage(s) ==
  MatchesOnlySpecial(s) \/ MatchesSameCharRun(s) \/ MatchesNoReadable(s)

\* word.lower().strip('.,!?;:')
NormWord(w) == StripSet(LowerStr(w), WordStripChars)

\* a variant of the word-repetition check that is applied whatever the number
\* of words
ExcessiveRepetitionAnyWordCount(s, max_repetition) ==
  LET words == Split(s)
      n == Len(words)
      norm == [i \in 1..n |-> NormWord(words[i])]
      count(w) == Cardinality({i \in 1..n : norm[i] = w})
  IN  \E i \in 1..n :
        /\ Len(norm[i]) > 3
        /\ count(norm[i]) > max_repetition
        /\ count(norm[i]) * 10 > n * 3

\* the word-repetition check of is_valid_response
ExcessiveRepetition(s, max_repetition) ==
  LET words == Split(s)
      n == Len(words)
      norm == [i \in 1..n |-> NormWord(words[i])]
      count(w) == Cardinality({i \in 1..n : norm[i] = w})
  IN  /\ n > MinWordsForRepetition
      /\ \E i \in 1..n :
           /\ Len(norm[i]) > 3
           /\ count(norm[i]) > max_repetition
           /\ count(norm[i]) * 10 > n * 3

\* the character-distribution check of is_valid_response
LowAlphaDensity(s) ==
  LET alpha_count == Cardinality({i \in 1..Len(s) : IsAlpha(s[i])})
      total_chars == Len(s)
  IN  total_chars > MinCharsForDensity /\ alpha_count * 10 < total_chars * 3

\* ResponseValidator.is_valid_response(response, min_length, max_repetition)
IsValidResponse(response, min_length, max_repetition) ==
  /\ response # NoneValue
  /\ response # <<>>
  /\ Len(Strip(response)) >= min_length
  /\ ~MatchesGarbage(response)
  /\ ~ExcessiveRepetition(response, max_repetition)
  /\ ~LowAlphaDensity(response)

\* a variant of is_valid_response that looks for garbage patterns before it
\* checks the length
FirstFailedCheckGarbageFirst(response, min_length, max_repetition) ==
  IF response = NoneValue \/ response = <<>> THEN "empty"
  ELSE IF MatchesGarbage(response) THEN "garbage"
  ELSE IF Len(Strip(response)) < min_length THEN "too_short"
  ELSE IF ExcessiveRepetition(response, max_repetition) THEN "repetition"
  ELSE IF LowAlphaDensity(response) THEN "density"
  ELSE "valid"

\* the return statement of is_valid_response that decides: line 33 ("empty"),
\* 38 ("too_short"), 44 ("garbage"), 59 ("repetition"), 67 ("density") or
\* line 69 ("valid")
FirstFailedCheck(response, min_length, max_repetition) ==
  IF response = NoneValue \/ response = <<>> THEN "empty"
  ELSE IF Len(Strip(response)) < min_length THEN "too_short"
  ELSE IF MatchesGarbage(response) THEN "garbage"
  ELSE IF ExcessiveRepetition(response, max_repetition) THEN "repetition"
  ELSE IF LowAlphaDensity(response) THEN "density"
  ELSE "valid"

\* re.sub(r'\s+', ' ', response): every maximal whitespace run becomes one space
CollapseWhitespace(s) ==
  Flatten([i \in 1..Len(s) |->
             IF IsSpace(s[i])
             THEN (IF i > 1 /\ IsSpace(s[i - 1]) THEN <<>> ELSE <<" ">>)
             ELSE <<s[i]>>],
          1, Len(s))

\* re.sub(r'([!?.]){4,}', r'\1\1\1', response): a maximal run of 4 or more becomes
\* three copies of the run's LAST character (the group's last capture)
CapPunctuation(s) ==
  Flatten([i \in 1..Len(s) |->
             IF IsRepeatPunct(s[i])
             THEN LET b == PunctRunStart(s, i)
                      e == PunctRunEnd(s, i)
                  IN  IF e - b + 1 >= PunctRunMin
                      THEN (IF i = e THEN [k \in 1..PunctRunCap |-> s[e]] ELSE <<>>)
                      ELSE <<s[i]>>
             ELSE <<s[i]>>],
          1, Len(s))

\* a variant of sanitize_response without the whitespace substitution
SanitizeResponseNoCollapse(response) ==
  IF response = NoneValue \/ response = <<>> THEN <<>>
  ELSE Strip(CapPunctuation(response))

\* ResponseValidator.sanitize_response(response)
SanitizeResponse(response) ==
  IF response = NoneValue \/ response = <<>> THEN <<>>
  ELSE Strip(CapPunctuation(CollapseWhitespace(response)))

\* ResponseValidator.validate_and_sanitize(response, fallback_message):
\* [raised, value]; raised is the TypeError of response[:100] on None
ValidateAndSanitize(response, fallback_message) ==
  LET sanitized == SanitizeResponse(response)
  IN  IF IsValidResponse(sanitized, DefaultMinLength, DefaultMaxRepetition)
      THEN [raised |-> FALSE, value |-> sanitized]
      ELSE IF response = NoneValue
      THEN [raised |-> TRUE, value |-> NoneValue]
      ELSE IF fallback_message # NoneValue /\ fallback_message # <<>>
      THEN [raised |-> FALSE, value |-> fallback_message]
      ELSE [raised |-> FALSE, value |-> GENERIC_APOLOGY]

\* substring test: sub in s
Contains(s, sub) ==
  \E i \in 0..(Len(s) - Len(sub)) : SubSeq(s, i + 1, i + Len(sub)) = sub

----------------------------------------------------------------------------
(* Sample texts: the queries and the collaborators' replies the model draws from *)

\* a query in the pivot language
QUERY_EN ==
  <<
    "w", "h", "a", "t", " ", "i", "s", " ", "a", "i"
  >>

\* a query in another language
QUERY_HI ==
  <<
    "a", "i", " ", "k", "y", "a", " ", "h", "a", "i"
  >>

\* a clean answer
ANSWER_OK ==
  <<
    "T", "h", "e", " ", "a", "n", "s", "w", "e", "r", " ", "i", "s", " ", "4", "2", "."
  >>

\* an answer that sanitizing changes
ANSWER_MESSY ==
  <<
    "Y", "e", "s", " ", " ", " ", "i", "t", "\t", "i", "s", "!", "!", "!", "!", "!", " ", " "
  >>

\* the grounded chain's 'no answer' reply
ANSWER_SENTINEL ==
  <<
    "I", " ", "c", "a", "n", "n", "o", "t", " ", "f", "i", "n", "d", " ", "t", "h", "e", " ",
    "a", "n", "s", "w", "e", "r", " ", "i", "n", " ", "t", "h", "e", " ", "c", "o", "n", "t",
    "e", "x", "t", "."
  >>

\* holds the sentinel only once sanitized
ANSWER_SENTINEL_MESSY ==
  <<
    "S", "o", "r", "r", "y", ".", " ", " ", "I", " ", "c", "a", "n", "n", "o", "t", " ", " ",
    "f", "i", "n", "d", " ", "t", "h", "e", " ", "a", "n", "s", "w", "e", "r"
  >>

\* too short
ANSWER_SHORT ==
  <<
    "h", "i"
  >>

\* only special characters
ANSWER_GARBAGE ==
  <<
    "#", "@", "#", "@", "#", "@", "#", "@", "#", "@", "#", "@"
  >>

\* the sentinel inside a garbage reply
ANSWER_GARBAGE_SENTINEL ==
  <<
    "#", "#", "#", "#", "#", "#", "#", "#", "#", "#", "#", "#", "#", "#", "#", "#", "#", "#",
    "#", "#", "#", " ", "I", " ", "c", "a", "n", "n", "o", "t", " ", "f", "i", "n", "d", " ",
    "t", "h", "e", " ", "a", "n", "s", "w", "e", "r"
  >>

\* a reply that repeats one word 15 times among 25 words
ANSWER_REPETITIVE ==
  <<"h", "e", "l", "l", "o", " ", "h", "e", "l", "l", "o", " ", "h", "e",
    "l", "l", "o", " ", "h", "e", "l", "l", "o", " ", "h", "e", "l", "l",
    "o", " ", "h", "e", "l", "l", "o", " ", "h", "e", "l", "l", "o", " ",
    "h", "e", "l", "l", "o", " ", "h", "e", "l", "l", "o", " ", "h", "e",
    "l", "l", "o", " ", "h", "e", "l", "l", "o", " ", "h", "e", "l", "l",
    "o", " ", "h", "e", "l", "l", "o", " ", "h", "e", "l", "l", "o", " ",
    "h", "e", "l", "l", "o", " ", "o", "k", " ", "o", "k", " ", "o", "k",
    " ", "o", "k", " ", "o", "k", " ", "o", "k", " ", "o", "k", " ", "o",
    "k", " ", "o", "k", " ", "o", "k">>

\* a reply of digits with two letters
ANSWER_LOW_DENSITY ==
  <<"1", "2", "3", "4", "5", " ", "6", "7", "8", "9", "0", " ", "1", "2",
    "3", "4", "5", " ", "6", "7", "8", "9", "0", " ", "a", "b">>

----------------------------------------------------------------------------
(* Collaborators of ChatService.ask_question *)

PIVOT_LANGUAGE == "en-IN"

\* the query_language_code values a caller passes
LanguageCodes == {"en-IN", "hi-IN", "xx-XX"}

\* the query texts a caller passes
Queries == {QUERY_EN, QUERY_HI}

\* config.SUPPORTED_LANGUAGES lookup, "English" when the code is not in the table
LanguageName(code) ==
  IF code = "en-IN" THEN "English"
  ELSE IF code = "hi-IN" THEN "Hindi"
  ELSE "English"

\* what sarvam_service.translate_text can return
Translations == {QUERY_EN}

\* what rag_service.get_answer can return
RagAnswers ==
  {ANSWER_OK, ANSWER_MESSY, ANSWER_SENTINEL, ANSWER_SENTINEL_MESSY, ANSWER_SHORT,
   ANSWER_GARBAGE, ANSWER_GARBAGE_SENTINEL, ANSWER_REPETITIVE, ANSWER_LOW_DENSITY,
   <<>>, NoneValue}

\* what response.choices[0].message.content can be (an Optional[str])
CompletionContents ==
  {ANSWER_OK, ANSWER_MESSY, ANSWER_SENTINEL, ANSWER_SHORT, <<>>, NoneValue}

\* outcomes of client.chat.completions.create: it raises, or it gives a content
ApiOutcomes ==
  {[raises |-> TRUE, content |-> NoneValue]}
  \cup {[raises |-> FALSE, content |-> c] : c \in CompletionContents}

\* LLMService.get_general_response: the content, or the apology when the call raises
GetGeneralResponse(api) ==
  IF api.raises THEN LLM_ERROR_MESSAGE ELSE api.content

----------------------------------------------------------------------------
(* ChatService *)

NoCall == <<>>

\* no ask_question call in flight
IdleReq ==
  [pc |-> "idle", query |-> NoneValue, lang |-> "", response_lang_name |-> "",
   rag_seen |-> FALSE, english_query |-> NoneValue, translated |-> NoneValue,
   grounded |-> NoneValue, gen_out |-> NoneValue, api_raised |-> FALSE,
   answer |-> NoneValue, sources |-> <<>>, error |-> "", calls |-> NoCall,
   retrieved |-> FALSE, observed |-> {}, torn |-> FALSE]

----------------------------------------------------------------------------
(* Course data and DocumentProcessor (services/document_service.py) *)

\* course data with a title and one module whose sub-topic has no content
COURSE_A ==
  [course_title |-> "Algebra",
   modules |-> <<[week |-> 1, title |-> "Intro",
                  sub_topics |-> <<[title |-> "Sets", content |-> ""]>>]>>]

\* course data with a title and a module whose sub-topic has content
COURSE_B ==
  [course_title |-> "Biology",
   modules |-> <<[week |-> 1, title |-> "Cells",
                  sub_topics |-> <<[title |-> "Nucleus", content |-> "DNA"]>>]>>]

\* course data that yields no document
COURSE_EMPTY == [course_title |-> "", modules |-> <<>>]

\* course data whose "modules" entry is not a list (None): iterating it raises
COURSE_MALFORMED == [course_title |-> "Chemistry", modules |-> "None"]

CourseData == {COURSE_A, COURSE_B, COURSE_EMPTY, COURSE_MALFORMED}

\* the documents of one module: the module line, then each sub-topic with content
ModuleDocuments(module) ==
  <<[source |-> "course_module", type |-> "module",
     page_content |-> <<"Week ", module.week, ": ", module.title>>]>>
  \o Flatten([i \in 1..Len(module.sub_topics) |->
                IF module.sub_topics[i].content # ""
                THEN <<[source |-> "course_content", type |-> "content",
                        page_content |-> <<"Topic: ", module.sub_topics[i].title,
                                           "\n\n", module.sub_topics[i].content>>]>>
                ELSE <<>>],
             1, Len(module.sub_topics))

\* DocumentProcessor.extract_course_documents: [raised, documents]
ExtractCourseDocuments(course_data) ==
  IF course_data.modules = "None"
  THEN [raised |-> TRUE, documents |-> <<>>]
  ELSE [raised |-> FALSE,
        documents |->
          (IF course_data.course_title # ""
           THEN <<[source |-> "course_overview", type |-> "title",
                   page_content |-> <<"Course Title: ", course_data.course_title>>]>>
           ELSE <<>>)
          \o Flatten([i \in 1..Len(course_data.modules) |->
                        ModuleDocuments(course_data.modules[i])],
                     1, Len(course_data.modules))]

\* DocumentProcessor.split_documents: these page contents are shorter than the
\* chunk size, so each document gives one chunk carrying its content and metadata
SplitDocuments(documents) ==
  [i \in 1..Len(documents) |-> [document |-> documents[i], part |-> 1]]

\* the chunks a vector store loaded at start-up already holds
PreloadedChunks ==
  {[document |-> [source |-> "pdf", type |-> "chunk", page_content |-> <<"pdf text">>],
    part |-> 1]}

\* what _initialize_vector_store can return: a store, or None (nothing to load,
\* or the exception swallowed at chat_service.py line 45)
InitializeVectorStoreResults == {"VectorStore", "None"}

\* no update_with_course_content call in flight
IdleUpd ==
  [pc |-> "idle", course_data |-> NoneValue, chunks |-> {}, remaining |-> <<>>,
   pre |-> {}, first |-> FALSE, failed |-> "", no_store |-> FALSE,
   state0 |-> [is_rag_active |-> FALSE, rag_service |-> "None",
               vector_store |-> "None"],
   repeat |-> FALSE, prev_course |-> NoneValue]

\* the websocket argument of stream_audio_from_text as the code can see it:
\* not given (None), or an object with or without the attributes closed and
\* state, or one whose attributes raise when read
Websocket(given, has_closed, closed, has_state, state, raises) ==
  [given |-> given, has_closed |-> has_closed, closed |-> closed,
   has_state |-> has_state, state |-> state, raises |-> raises]

NoWebsocket == Websocket(FALSE, FALSE, FALSE, FALSE, 0, FALSE)

Websockets ==
  {NoWebsocket,
   Websocket(TRUE, FALSE, FALSE, FALSE, 0, FALSE),
   Websocket(TRUE, TRUE, FALSE, FALSE, 0, FALSE),
   Websocket(TRUE, TRUE, TRUE, FALSE, 0, FALSE),
   Websocket(TRUE, TRUE, FALSE, TRUE, 3, FALSE),
   Websocket(TRUE, FALSE, FALSE, FALSE, 0, TRUE)}
  \cup {Websocket(TRUE, FALSE, FALSE, TRUE, state, FALSE) : state \in 0..3}

\* no stream_audio_from_text generator in flight
IdleAudio ==
  [pc |-> "idle", websocket |-> NoWebsocket, received |-> 0, yielded |-> <<>>,
   error_msg |-> NoneValue, normal |-> FALSE, fallback_called |-> FALSE,
   fallback_buffer |-> "", fallback_raised |-> FALSE, raised |-> FALSE]

\* the worker processes that serve uploads at the same time
NumWorkers == 2

\* the number of process_uploaded_pdfs calls that are let through
MaxCourses == 3

\* no process_uploaded_pdfs call in flight in a worker
IdleRun ==
  [pc |-> "idle", course_title |-> "", existing_courses |-> <<>>,
   course_dict |-> [course_id |-> 0, course_title |-> [name |-> "", n |-> 1],
                    modules |-> <<>>],
   error |-> ""]

\* the pending outcome of the validator harness
NotRun == [raised |-> FALSE, value |-> NoneValue, called |-> FALSE]

\* no is_valid_response or sanitize_response call made by the validator harness
NoCheck == [op |-> "none", valid |-> FALSE, decided_by |-> "", text |-> NoneValue]

\* ChatService.__init__: a vector store was loaded, or none was found
Init ==
  /\ \/ /\ vector_store = "VectorStore"
        /\ rag_service = "RAGService"
        /\ is_rag_active = TRUE
        /\ index = PreloadedChunks
     \/ /\ vector_store = "None"
        /\ rag_service = "None"
        /\ is_rag_active = FALSE
        /\ index = {}
  /\ req = IdleReq
  /\ upd = IdleUpd
  /\ audio = IdleAudio
  /\ courses_file = <<>>
  /\ pdf_runs = [w \in 1..NumWorkers |-> IdleRun]
  /\ returned_courses = <<>>
  /\ v_response = NoneValue
  /\ v_fallback = NoneValue
  /\ v_result = NotRun
  /\ v_check = NoCheck

\* line 103: await self.llm_service.get_general_response(query, response_lang_name)
CallGeneral(r) ==
  [r EXCEPT !.pc = "await_general",
            !.calls = Append(@, [fn |-> "get_general_response", arg |-> r.query,
                                 lang |-> r.response_lang_name])]

\* line 89: await self.llm_service.get_general_response(query, response_lang_name)
CallFallback(r) ==
  [r EXCEPT !.pc = "await_fallback",
            !.calls = Append(@, [fn |-> "get_general_response", arg |-> r.query,
                                 lang |-> r.response_lang_name])]

\* CallRag handing get_answer the caller's query in place of english_query
CallRagWithQuery(r) ==
  IF rag_service = "None" THEN CallGeneral(r)
  ELSE [r EXCEPT !.pc = "await_rag",
                 !.calls = Append(@, [fn |-> "get_answer", arg |-> r.query,
                                      lang |-> r.response_lang_name])]

\* line 75: await self.rag_service.get_answer(english_query, response_lang_name);
\* on a missing rag_service the attribute error is caught at line 97
CallRag(r) ==
  IF rag_service = "None" THEN CallGeneral(r)
  ELSE [r EXCEPT !.pc = "await_rag",
                 !.calls = Append(@, [fn |-> "get_answer", arg |-> r.english_query,
                                      lang |-> r.response_lang_name])]

\* lines 63-67: await self.sarvam_service.translate_text(text=query, ...)
CallTranslate(r) ==
  [r EXCEPT !.pc = "await_translate",
            !.calls = Append(@, [fn |-> "translate_text", arg |-> r.query,
                                 lang |-> r.lang])]

\* AskQuestion without the language test of line 61
AskQuestionAlwaysTranslate(query, code) ==
  /\ req.pc = "idle"
  /\ LET r == [IdleReq EXCEPT !.query = query, !.lang = code,
                              !.response_lang_name = LanguageName(code),
                              !.rag_seen = is_rag_active,
                              !.english_query = query]
     IN  req' = IF is_rag_active THEN CallTranslate(r) ELSE CallGeneral(r)
  /\ UNCHANGED <<is_rag_active, rag_service, vector_store, index, upd, audio, validator_vars, document_vars>>

\* ask_question, lines 52-75 or 52-57 and 100-103: up to the first await
AskQuestion(query, code) ==
  /\ req.pc = "idle"
  /\ LET r == [IdleReq EXCEPT !.query = query, !.lang = code,
                              !.response_lang_name = LanguageName(code),
                              !.rag_seen = is_rag_active,
                              !.english_query = query]
     IN  req' = IF is_rag_active
                THEN (IF code # PIVOT_LANGUAGE THEN CallTranslate(r) ELSE CallRag(r))
                ELSE CallGeneral(r)
  /\ UNCHANGED <<is_rag_active, rag_service, vector_store, index, upd, audio, validator_vars, document_vars>>

\* ask_question, lines 63-75: the translation arrives, the grounded call is made
TranslateReturns(t) ==
  /\ req.pc = "await_translate"
  /\ req' = CallRag([req EXCEPT !.english_query = t, !.translated = t])
  /\ UNCHANGED <<is_rag_active, rag_service, vector_store, index, upd, audio, validator_vars, document_vars>>

\* TranslateRaises with the await of line 63 inside the try block of line 71
TranslateRaisesAbsorbed ==
  /\ req.pc = "await_translate"
  /\ req' = CallGeneral([req EXCEPT !.error = "translate_text"])
  /\ UNCHANGED <<is_rag_active, rag_service, vector_store, index, upd, audio, validator_vars, document_vars>>

\* ask_question, line 63: translate_text raises outside the try block of line 71
TranslateRaises ==
  /\ req.pc = "await_translate"
  /\ req' = [req EXCEPT !.pc = "raised", !.error = "translate_text"]
  /\ UNCHANGED <<is_rag_active, rag_service, vector_store, index, upd, audio, validator_vars, document_vars>>

\* the index is neither as it was before the ingestion in flight (or just ended)
\* nor as it is with all of its chunks added
TornIndex ==
  /\ upd.pc # "idle"
  /\ upd.chunks # {}
  /\ index \notin {upd.pre, upd.pre \cup upd.chunks}

\* what the retrieval of rag_service.get_answer reads from the shared store
Retrieve(r) ==
  [r EXCEPT !.retrieved = TRUE, !.observed = index, !.torn = TornIndex]

\* a variant that looks for the sentinel in the generator's raw output, before
\* the output is validated
RagReturnsSentinelFirst(out) ==
  /\ req.pc = "await_rag"
  /\ LET v == ValidateAndSanitize(out, RAG_FALLBACK_MESSAGE)
         r == Retrieve([req EXCEPT !.gen_out = out])
     IN  req' = IF v.raised THEN CallGeneral(r)
                ELSE IF Contains(out, SENTINEL)
                THEN CallFallback([r EXCEPT !.answer = v.value, !.grounded = v.value])
                ELSE [r EXCEPT !.pc = "returned", !.answer = v.value,
                               !.grounded = v.value,
                               !.sources = <<"Course Content">>]
  /\ UNCHANGED <<is_rag_active, rag_service, vector_store, index, upd, audio, validator_vars, document_vars>>

\* ask_question, lines 75-95 (and 97-103 when the validation raises)
RagReturns(out) ==
  /\ req.pc = "await_rag"
  /\ LET v == ValidateAndSanitize(out, RAG_FALLBACK_MESSAGE)
         r == Retrieve([req EXCEPT !.gen_out = out])
     IN  req' = IF v.raised THEN CallGeneral(r)
                ELSE IF Contains(v.value, SENTINEL)
                THEN CallFallback([r EXCEPT !.answer = v.value, !.grounded = v.value])
                ELSE [r EXCEPT !.pc = "returned", !.answer = v.value,
                               !.grounded = v.value,
                               !.sources = <<"Course Content">>]
  /\ UNCHANGED <<is_rag_active, rag_service, vector_store, index, upd, audio, validator_vars, document_vars>>

\* ask_question, lines 75 and 97-103: get_answer raises, caught at line 97
RagRaises ==
  /\ req.pc = "await_rag"
  /\ \E r \in {req, Retrieve(req)} : req' = CallGeneral([r EXCEPT !.error = "get_answer"])
  /\ UNCHANGED <<is_rag_active, rag_service, vector_store, index, upd, audio, validator_vars, document_vars>>

\* ask_question, lines 89-93 (and 97-103 when the validation raises)
FallbackCompletes(api) ==
  /\ req.pc = "await_fallback"
  /\ LET out == GetGeneralResponse(api)
         v == ValidateAndSanitize(out, NoneValue)
         r == [req EXCEPT !.gen_out = out, !.api_raised = api.raises]
     IN  req' = IF v.raised THEN CallGeneral(r)
                ELSE [r EXCEPT !.pc = "returned", !.answer = v.value,
                               !.sources = <<"General Knowledge Fallback">>]
  /\ UNCHANGED <<is_rag_active, rag_service, vector_store, index, upd, audio, validator_vars, document_vars>>

\* GeneralCompletes without the validate_and_sanitize call of line 104
GeneralCompletesUnvalidated(api) ==
  /\ req.pc = "await_general"
  /\ LET out == GetGeneralResponse(api)
     IN  req' = [req EXCEPT !.gen_out = out, !.api_raised = api.raises,
                            !.pc = "returned", !.answer = out,
                            !.sources = <<"General Knowledge">>]
  /\ UNCHANGED <<is_rag_active, rag_service, vector_store, index, upd, audio, validator_vars, document_vars>>

\* ask_question, lines 103-107: the TypeError of the validation reaches the caller
GeneralCompletes(api) ==
  /\ req.pc = "await_general"
  /\ LET out == GetGeneralResponse(api)
         v == ValidateAndSanitize(out, NoneValue)
         r == [req EXCEPT !.gen_out = out, !.api_raised = api.raises]
     IN  req' = IF v.raised THEN [r EXCEPT !.pc = "raised", !.error = "TypeError"]
                ELSE [r EXCEPT !.pc = "returned", !.answer = v.value,
                               !.sources = <<"General Knowledge">>]
  /\ UNCHANGED <<is_rag_active, rag_service, vector_store, index, upd, audio, validator_vars, document_vars>>

\* the caller has the result (or the exception); the next ask_question may start
Finish ==
  /\ req.pc \in {"returned", "raised"}
  /\ req' = IdleReq
  /\ UNCHANGED <<is_rag_active, rag_service, vector_store, index, upd, audio, validator_vars, document_vars>>

Next ==
  \/ \E q \in Queries, code \in LanguageCodes : AskQuestion(q, code)
  \/ \E t \in Translations : TranslateReturns(t)
  \/ TranslateRaises
  \/ \E out \in RagAnswers : RagReturns(out)
  \/ RagRaises
  \/ \E api \in ApiOutcomes : FallbackCompletes(api)
  \/ \E api \in ApiOutcomes : GeneralCompletes(api)
  \/ Finish

Spec == Init /\ [][Next]_vars

----------------------------------------------------------------------------
(* ChatService.update_with_course_content, interleaved with ask_question *)

\* update_with_course_content, lines 111-124: extract, split, and choose the
\* branch; on the first-time branch self.vector_store is assigned at once, and
\* a store that _initialize_vector_store now finds holds what was saved to it
\* since the coordinator was constructed
UpdateBegin(course_data) ==
  /\ upd.pc = "idle"
  /\ LET e == ExtractCourseDocuments(course_data)
         split_course_docs == SplitDocuments(e.documents)
         base == [IdleUpd EXCEPT
                    !.course_data = course_data,
                    !.state0 = [is_rag_active |-> is_rag_active,
                                rag_service |-> rag_service,
                                vector_store |-> vector_store],
                    !.pre = index,
                    !.repeat = (upd.prev_course = course_data),
                    !.prev_course = course_data]
         work == [base EXCEPT !.pc = "adding",
                              !.chunks = Range(split_course_docs),
                              !.remaining = split_course_docs]
     IN  IF e.raised
         THEN /\ upd' = [base EXCEPT !.pc = "raised",
                                     !.failed = "extract_course_documents"]
              /\ UNCHANGED <<vector_store, index>>
         ELSE IF e.documents = <<>>
         THEN /\ upd' = [base EXCEPT !.pc = "returned"]
              /\ UNCHANGED <<vector_store, index>>
         ELSE IF vector_store # "None"
         THEN /\ upd' = work
              /\ UNCHANGED <<vector_store, index>>
         ELSE \E store \in InitializeVectorStoreResults :
                /\ vector_store' = store
                /\ IF store = "None"
                   THEN /\ upd' = [base EXCEPT !.pc = "returned", !.no_store = TRUE,
                                               !.chunks = Range(split_course_docs)]
                        /\ UNCHANGED index
                   ELSE /\ index' = PreloadedChunks
                        /\ upd' = [work EXCEPT !.first = TRUE,
                                               !.pre = PreloadedChunks]
  /\ UNCHANGED <<is_rag_active, rag_service, req, audio, validator_vars, document_vars>>

\* vector_store.add_documents (lines 121 and 126) writes the chunks into the
\* live store in list order, k more of them in this step
UpdateAdd(k) ==
  /\ upd.pc = "adding"
  /\ k \in 1..Len(upd.remaining)
  /\ index' = index \cup {upd.remaining[i] : i \in 1..k}
  /\ upd' = [upd EXCEPT
               !.remaining = SubSeq(upd.remaining, k + 1, Len(upd.remaining)),
               !.pc = IF k < Len(upd.remaining) THEN "adding"
                      ELSE IF upd.first THEN "attach_rag" ELSE "returned"]
  /\ UNCHANGED <<is_rag_active, rag_service, vector_store, req, audio, validator_vars, document_vars>>

\* a variant whose except block also switches retrieval off
UpdateAddRaisesDeactivates ==
  /\ upd.pc = "adding"
  /\ upd' = [upd EXCEPT !.pc = "raised", !.failed = "add_documents"]
  /\ is_rag_active' = FALSE
  /\ UNCHANGED <<rag_service, vector_store, index, req, audio, validator_vars, document_vars>>

\* vector_store.add_documents raises; lines 132-134 log and re-raise
UpdateAddRaises ==
  /\ upd.pc = "adding"
  /\ upd' = [upd EXCEPT !.pc = "raised", !.failed = "add_documents"]
  /\ UNCHANGED <<is_rag_active, rag_service, vector_store, index, req, audio,
                 validator_vars, document_vars>>

\* a variant of the first-time branch that sets the flag before the service
UpdateAttachRagFlagFirst ==
  /\ upd.pc = "attach_rag"
  /\ is_rag_active' = TRUE
  /\ upd' = [upd EXCEPT !.pc = "activate"]
  /\ UNCHANGED <<rag_service, vector_store, index, req, audio, validator_vars, document_vars>>

\* line 127 of the first-time branch: self.rag_service = RAGService(...)
UpdateAttachRag ==
  /\ upd.pc = "attach_rag"
  /\ rag_service' = "RAGService"
  /\ upd' = [upd EXCEPT !.pc = "activate"]
  /\ UNCHANGED <<is_rag_active, vector_store, index, req, audio, validator_vars, document_vars>>

\* line 127: the RAGService constructor raises; lines 132-134 log and re-raise
UpdateAttachRagRaises ==
  /\ upd.pc = "attach_rag"
  /\ upd' = [upd EXCEPT !.pc = "raised", !.failed = "RAGService"]
  /\ UNCHANGED <<is_rag_active, rag_service, vector_store, index, req, audio,
                 validator_vars, document_vars>>

\* line 128 of the first-time branch: self.is_rag_active = True
UpdateActivate ==
  /\ upd.pc = "activate"
  /\ is_rag_active' = TRUE
  /\ upd' = [upd EXCEPT !.pc = "returned"]
  /\ UNCHANGED <<rag_service, vector_store, index, req, audio, validator_vars, document_vars>>

\* the caller has the outcome of update_with_course_content; the next call may start
UpdateFinish ==
  /\ upd.pc \in {"returned", "raised"}
  /\ upd' = [IdleUpd EXCEPT !.prev_course = upd.course_data]
  /\ UNCHANGED <<is_rag_active, rag_service, vector_store, index, req, audio,
                 validator_vars, document_vars>>

\* the replies the collaborators of ask_question give while courses are ingested
IngestApiOutcomes == {[raises |-> FALSE, content |-> ANSWER_OK]}

NextIngest ==
  \/ \E code \in {"hi-IN"} : AskQuestion(QUERY_EN, code)
  \/ \E t \in Translations : TranslateReturns(t)
  \/ TranslateRaises
  \/ \E out \in {ANSWER_OK, ANSWER_SENTINEL} : RagReturns(out)
  \/ RagRaises
  \/ \E api \in IngestApiOutcomes : FallbackCompletes(api)
  \/ \E api \in IngestApiOutcomes : GeneralCompletes(api)
  \/ Finish
  \/ \E course_data \in CourseData : UpdateBegin(course_data)
  \/ \E k \in 1..3 : UpdateAdd(k)
  \/ UpdateAddRaises
  \/ UpdateAttachRag
  \/ UpdateAttachRagRaises
  \/ UpdateActivate
  \/ UpdateFinish

SpecIngest == Init /\ [][NextIngest]_vars

----------------------------------------------------------------------------
(* AudioService.stream_audio_from_text (services/audio_service.py) *)

MaxChunks == 2

\* str(e): a websocket closure with the normal code
ERR_CLOSED_OK ==
  <<"r", "e", "c", "e", "i", "v", "e", "d", " ", "1", "0", "0", "0", " ",
    "(", "O", "K", ")", ";", " ", "t", "h", "e", "n", " ", "s", "e", "n",
    "t", " ", "1", "0", "0", "0", " ", "(", "O", "K", ")">>

\* str(e): a closure reported in mixed case
ERR_GOING_AWAY ==
  <<"C", "l", "i", "e", "n", "t", " ", "G", "o", "i", "n", "g", " ", "A",
    "w", "a", "y">>

\* str(e): a failure of the speech generation
ERR_TTS ==
  <<"T", "T", "S", " ", "A", "P", "I", " ", "e", "r", "r", "o", "r", " ",
    "5", "0", "0">>

\* str(e): a failure of the speech generation whose text holds the digits 1000
ERR_TIMEOUT ==
  <<"t", "i", "m", "e", "o", "u", "t", " ", "a", "f", "t", "e", "r", " ",
    "1", "0", "0", "0", "0", " ", "m", "s">>

\* the str(e) values of the exceptions stream_audio_generation can raise
ErrorMessages == {ERR_CLOSED_OK, ERR_GOING_AWAY, ERR_TTS, ERR_TIMEOUT, <<>>}

\* normal_codes of _is_normal_disconnection
NormalCodes ==
  {<<"1", "0", "0", "0">>,
   <<"1", "0", "0", "1">>}

\* disconnection_phrases of _is_normal_disconnection
DisconnectionPhrases ==
  {<<"c", "o", "n", "n", "e", "c", "t", "i", "o", "n", " ", "c", "l", "o",
     "s", "e", "d">>,
   <<"c", "l", "i", "e", "n", "t", " ", "d", "i", "s", "c", "o", "n", "n",
     "e", "c", "t", "e", "d">>,
   <<"g", "o", "i", "n", "g", " ", "a", "w", "a", "y">>,
   <<"c", "o", "n", "n", "e", "c", "t", "i", "o", "n", " ", "l", "o", "s",
     "t">>}

\* AudioService._is_normal_disconnection
IsNormalDisconnection(error_msg) ==
  /\ error_msg # <<>>
  /\ \E sub \in NormalCodes \cup DisconnectionPhrases :
       Contains(LowerStr(error_msg), sub)

\* AudioService._is_client_disconnected
IsClientDisconnected(websocket) ==
  IF ~websocket.given THEN FALSE
  ELSE IF websocket.raises THEN TRUE
  ELSE IF websocket.has_closed /\ websocket.closed THEN TRUE
  ELSE IF websocket.has_state THEN websocket.state \in {2, 3}
  ELSE FALSE

\* stream_audio_from_text is called, line 39; nothing runs before the first
\* chunk is asked for
StreamBegin(websocket) ==
  /\ audio.pc = "idle"
  /\ audio' = [IdleAudio EXCEPT !.pc = "streaming", !.websocket = websocket]
  /\ UNCHANGED <<chat_vars_but_audio, validator_vars, document_vars>>

\* lines 44-51: stream_audio_generation gives one more chunk; an empty one is
\* skipped, any other is yielded
StreamChunk(nonempty) ==
  /\ audio.pc = "streaming"
  /\ audio.received < MaxChunks
  /\ audio' = [audio EXCEPT
                 !.received = @ + 1,
                 !.yielded = IF nonempty THEN Append(@, "streamed") ELSE @]
  /\ UNCHANGED <<chat_vars_but_audio, validator_vars, document_vars>>

\* stream_audio_generation is exhausted: the generator ends
StreamEnds ==
  /\ audio.pc = "streaming"
  /\ audio' = [audio EXCEPT !.pc = "ended"]
  /\ UNCHANGED <<chat_vars_but_audio, validator_vars, document_vars>>

\* a variant that tries the fallback after every error it does not classify as
\* a normal disconnection, without looking at the websocket
StreamRaisesAlwaysFallback(error_msg, now) ==
  /\ audio.pc = "streaming"
  /\ now.given = audio.websocket.given
  /\ LET a == [audio EXCEPT !.error_msg = error_msg, !.websocket = now,
                            !.normal = IsNormalDisconnection(error_msg)]
     IN  audio' =
           IF IsNormalDisconnection(error_msg)
           THEN [a EXCEPT !.pc = "ended"]
           ELSE [a EXCEPT !.pc = "await_fallback", !.fallback_called = TRUE]
  /\ UNCHANGED <<chat_vars_but_audio, validator_vars, document_vars>>

\* lines 52-62: stream_audio_generation raises an exception whose text is
\* error_msg; now is what the websocket object shows when it is inspected
StreamRaises(error_msg, now) ==
  /\ audio.pc = "streaming"
  /\ now.given = audio.websocket.given
  /\ LET a == [audio EXCEPT !.error_msg = error_msg, !.websocket = now,
                            !.normal = IsNormalDisconnection(error_msg)]
     IN  audio' =
           IF IsNormalDisconnection(error_msg)
           THEN [a EXCEPT !.pc = "ended"]
           ELSE IF ~now.given \/ ~IsClientDisconnected(now)
           THEN [a EXCEPT !.pc = "await_fallback", !.fallback_called = TRUE]
           ELSE [a EXCEPT !.pc = "ended"]
  /\ UNCHANGED <<chat_vars_but_audio, validator_vars, document_vars>>

\* lines 63-66: generate_audio_from_text returned; a non-empty buffer is
\* yielded as one chunk
AudioFallbackReturns(audio_buffer) ==
  /\ audio.pc = "await_fallback"
  /\ audio' = [audio EXCEPT
                 !.pc = "ended",
                 !.fallback_buffer = audio_buffer,
                 !.yielded = IF audio_buffer = "audio" THEN Append(@, "fallback")
                             ELSE @]
  /\ UNCHANGED <<chat_vars_but_audio, validator_vars, document_vars>>

\* lines 67-70: generate_audio_from_text raised; the generator ends
AudioFallbackRaises ==
  /\ audio.pc = "await_fallback"
  /\ audio' = [audio EXCEPT !.pc = "ended", !.fallback_raised = TRUE]
  /\ UNCHANGED <<chat_vars_but_audio, validator_vars, document_vars>>

\* the consumer has seen the end of the generator; the next text may be streamed
AudioFinish ==
  /\ audio.pc = "ended"
  /\ audio' = IdleAudio
  /\ UNCHANGED <<chat_vars_but_audio, validator_vars, document_vars>>

NextAudio ==
  \/ \E websocket \in Websockets : StreamBegin(websocket)
  \/ \E nonempty \in BOOLEAN : StreamChunk(nonempty)
  \/ StreamEnds
  \/ \E error_msg \in ErrorMessages, now \in Websockets : StreamRaises(error_msg, now)
  \* audio_buffer after generate_audio_from_text returned: a buffer holding
  \* audio, an empty buffer, or None
  \/ \E audio_buffer \in {"audio", "empty", "None"} : AudioFallbackReturns(audio_buffer)
  \/ AudioFallbackRaises
  \/ AudioFinish

SpecAudio == Init /\ [][NextAudio]_vars

----------------------------------------------------------------------------
(* DocumentService.process_uploaded_pdfs (services/document_service.py) *)

\* DocumentService._get_next_course_id
GetNextCourseId(existing_courses) ==
  LET ids == {0} \cup {existing_courses[i].course_id :
                         i \in 1..Len(existing_courses)}
  IN  IF existing_courses = <<>> THEN 1
      ELSE (CHOOSE m \in ids : \A k \in ids : k <= m) + 1

\* DocumentService._ensure_unique_title; a title is the original one (n = 1)
\* or f"{original_title} ({n})"
EnsureUniqueTitle(course_dict, existing_courses) ==
  LET existing_titles ==
        {existing_courses[i].course_title : i \in 1..Len(existing_courses)}
      name == course_dict.course_title.name
      free == {n \in 2..(Len(existing_courses) + 2) :
                 [name |-> name, n |-> n] \notin existing_titles}
  IN  IF course_dict.course_title \notin existing_titles THEN course_dict
      ELSE [course_dict EXCEPT
              !.course_title =
                 [name |-> name, n |-> CHOOSE n \in free : \A k \in free : n <= k]]

\* process_uploaded_pdfs, lines 30-94, in worker w: the PDFs are saved, read
\* and chunked, the chunks go to the vector store (with use_chroma_cloud into
\* the shared cloud collection, else into a FAISS directory rebuilt on disk,
\* which no running coordinator holds), and the course is generated; at most
\* MaxCourses calls are let through
CourseBegin(w, course_title, use_chroma_cloud) ==
  /\ pdf_runs[w].pc = "idle"
  /\ Len(returned_courses)
       + Cardinality({v \in 1..NumWorkers : pdf_runs[v].pc # "idle"}) < MaxCourses
  /\ pdf_runs' = [pdf_runs EXCEPT ![w] =
                    [IdleRun EXCEPT !.pc = "saving_course",
                                    !.course_title = course_title]]
  /\ index' = IF use_chroma_cloud
              THEN index \cup {[document |-> [source |-> "pdf", type |-> "chunk",
                                              page_content |-> <<"uploaded pdf text">>],
                                part |-> 1]}
              ELSE index
  /\ UNCHANGED <<is_rag_active, rag_service, vector_store, req, upd, audio,
                 validator_vars, courses_file, returned_courses>>

\* lines 30-94 raise (a file that is no PDF, no text, no chunks, no store, no
\* course); lines 122-124 log and re-raise
CourseBeginRaises(w) ==
  /\ pdf_runs[w].pc = "idle"
  /\ Len(returned_courses)
       + Cardinality({v \in 1..NumWorkers : pdf_runs[v].pc # "idle"}) < MaxCourses
  /\ pdf_runs' = [pdf_runs EXCEPT ![w] =
                    [IdleRun EXCEPT !.pc = "raised", !.error = "processing"]]
  /\ UNCHANGED <<chat_vars, validator_vars, courses_file, returned_courses>>

\* lines 97-114: the course is prepared, the courses file is read
\* (_load_existing_courses gives the list a file in the multi-course format
\* holds), the next id and a unique title are computed from what was read, and
\* the course is appended to the list in memory
CourseLoad(w) ==
  /\ pdf_runs[w].pc = "saving_course"
  /\ LET existing_courses == courses_file
         next_course_id == GetNextCourseId(existing_courses)
         prepared == [IdleRun.course_dict EXCEPT
                        !.course_title = [name |-> pdf_runs[w].course_title, n |-> 1]]
         titled == EnsureUniqueTitle(prepared, existing_courses)
         course_dict == [titled EXCEPT !.course_id = next_course_id]
     IN  pdf_runs' = [pdf_runs EXCEPT ![w] =
                        [@ EXCEPT !.pc = "loaded",
                                  !.course_dict = course_dict,
                                  !.existing_courses =
                                     Append(existing_courses, course_dict)]]
  /\ UNCHANGED <<chat_vars, validator_vars, courses_file, returned_courses>>

\* lines 116-120: _save_courses_to_file writes the list over the file and the
\* course is returned
CourseSave(w) ==
  /\ pdf_runs[w].pc = "loaded"
  /\ courses_file' = pdf_runs[w].existing_courses
  /\ returned_courses' = Append(returned_courses, pdf_runs[w].course_dict)
  /\ pdf_runs' = [pdf_runs EXCEPT ![w] = [@ EXCEPT !.pc = "returned"]]
  /\ UNCHANGED <<chat_vars, validator_vars>>

\* _save_courses_to_file raises (the file cannot be written); re-raised at
\* lines 122-124
CourseSaveRaises(w) ==
  /\ pdf_runs[w].pc = "loaded"
  /\ pdf_runs' = [pdf_runs EXCEPT ![w] =
                    [@ EXCEPT !.pc = "raised", !.error = "save"]]
  /\ UNCHANGED <<chat_vars, validator_vars, courses_file, returned_courses>>

\* the caller of worker w has the course (or the exception); the worker is free
CourseFinish(w) ==
  /\ pdf_runs[w].pc \in {"returned", "raised"}
  /\ pdf_runs' = [pdf_runs EXCEPT ![w] = IdleRun]
  /\ UNCHANGED <<chat_vars, validator_vars, courses_file, returned_courses>>

\* the workers start with no courses file yet, or with one saved course in it
InitCourses ==
  /\ vector_store = "None"
  /\ rag_service = "None"
  /\ is_rag_active = FALSE
  /\ req = IdleReq
  /\ index = {}
  /\ upd = IdleUpd
  /\ audio = IdleAudio
  /\ v_response = NoneValue
  /\ v_fallback = NoneValue
  /\ v_result = NotRun
  /\ v_check = NoCheck
  /\ courses_file \in
       {<<>>,
        <<[course_id |-> 1, course_title |-> [name |-> "Physics", n |-> 1],
           modules |-> <<>>]>>}
  /\ pdf_runs = [w \in 1..NumWorkers |-> IdleRun]
  /\ returned_courses = <<>>

NextCourses ==
  \/ \E w \in 1..NumWorkers, course_title \in {"Physics", "Maths"},
        use_chroma_cloud \in BOOLEAN :
       CourseBegin(w, course_title, use_chroma_cloud)
  \/ \E w \in 1..NumWorkers : CourseBeginRaises(w)
  \/ \E w \in 1..NumWorkers : CourseLoad(w)
  \/ \E w \in 1..NumWorkers : CourseSave(w)
  \/ \E w \in 1..NumWorkers : CourseSaveRaises(w)
  \/ \E w \in 1..NumWorkers : CourseFinish(w)

SpecCourses == InitCourses /\ [][NextCourses]_vars

----------------------------------------------------------------------------
(* ResponseValidator.validate_and_sanitize applied to a bounded family of texts *)

MaxSegments == 2

\* n copies of the character c
Rep(c, n) == [i \in 1..n |-> c]

\* the runs the texts are built from: a letter, a space, a capped punctuation
\* mark, a special character; shorter and longer than the validator's thresholds
SegmentChars == {"a", " ", "!", "#"}
SegmentLens == {1, 4, 21}
Segments == {Rep(c, n) : c \in SegmentChars, n \in SegmentLens}

RECURSIVE TextsOf(_)
TextsOf(k) ==
  IF k = 0 THEN {<<>>}
  ELSE LET shorter == TextsOf(k - 1)
       IN  shorter \cup {t \o seg : t \in shorter, seg \in Segments}

\* one character 20 times, one short of what GARBAGE_PATTERNS[1] matches
TEXT_RUN_20 == Rep("a", 20)

\* 25 letters, then 50 digits none of which stands 21 times in a row
TEXT_DIGIT_RUN ==
  <<"a", "b", "c", "d", "e", "f", "g", "h", "i", "j", "k", "l", "m",
    "n", "o", "p", "q", "r", "s", "t", "u", "v", "w", "x", "y">>
  \o Flatten([i \in 1..5 |-> <<"1", "2", "3", "4", "5", "6", "7", "8", "9", "0">>], 1, 5)

\* 21 line breaks between two words
TEXT_NEWLINE_RUN == <<"a", "b", "c", "d", "e">> \o Rep("\n", 21) \o <<"a", "b", "c", "d", "e">>

\* punctuation runs of mixed marks and doubled spaces
TEXT_MIXED_PUNCT ==
  <<"a", "!", "!", "!", "!", "?",
    "b", " ", " ", "c", ".", ".", ".", ".">>

\* the plain sentence of the is_valid_response contract
TEXT_PLAIN ==
  <<"h", "e", "l", "l", "o", " ", "w", "o", "r", "l", "d",
    " ", "t", "h", "i", "s", " ", "i", "s", " ", "f", "i", "n", "e">>

WORD_HELLO == <<"h", "e", "l", "l", "o">>
WORD_HELLO_PUNCT == <<"H", "e", "l", "l", "o", ",">>
WORD_ABC == <<"a", "b", "c">>
WORD_FILLER == <<"o", "k">>

\* word k times, then filler m times, joined by single spaces
RepeatedWords(word, k, filler, m) ==
  Flatten([i \in 1..(k + m) |->
             (IF i > 1 THEN <<" ">> ELSE <<>>) \o (IF i <= k THEN word ELSE filler)],
          1, k + m)

\* <<k, m>>: around the thresholds of the repetition check (more than 10 words,
\* more than 5 occurrences, more than 0.3 of the words)
RepeatCounts == {<<6, 0>>, <<6, 4>>, <<6, 5>>, <<6, 14>>, <<5, 6>>, <<15, 10>>}

RepeatedWordTexts ==
  {RepeatedWords(word, c[1], WORD_FILLER, c[2]) :
     word \in {WORD_HELLO, WORD_HELLO_PUNCT, WORD_ABC}, c \in RepeatCounts}

\* the response arguments: None, texts of up to MaxSegments runs, generator
\* replies, texts at the validator's thresholds
ValidatorInputs ==
  {NoneValue} \cup TextsOf(MaxSegments) \cup RagAnswers \cup {LLM_ERROR_MESSAGE}
  \cup {TEXT_RUN_20, TEXT_DIGIT_RUN, TEXT_NEWLINE_RUN, TEXT_MIXED_PUNCT, TEXT_PLAIN}
  \cup RepeatedWordTexts

\* the fallback_message arguments: not given, empty, given
ValidatorFallbacks == {NoneValue, <<>>, RAG_FALLBACK_MESSAGE}

InitValidator ==
  /\ vector_store = "None"
  /\ rag_service = "None"
  /\ is_rag_active = FALSE
  /\ req = IdleReq
  /\ index = {}
  /\ upd = IdleUpd
  /\ audio = IdleAudio
  /\ courses_file = <<>>
  /\ pdf_runs = [w \in 1..NumWorkers |-> IdleRun]
  /\ returned_courses = <<>>
  /\ v_response \in ValidatorInputs
  /\ v_fallback \in ValidatorFallbacks
  /\ v_result = NotRun
  /\ v_check = NoCheck

\* one call ResponseValidator.validate_and_sanitize(v_response, v_fallback)
Validate ==
  /\ v_result = NotRun
  /\ v_check = NoCheck
  /\ LET v == ValidateAndSanitize(v_response, v_fallback)
     IN  v_result' = [raised |-> v.raised, value |-> v.value, called |-> TRUE]
  /\ UNCHANGED <<chat_vars, document_vars, v_response, v_fallback, v_check>>

\* one call ResponseValidator.is_valid_response(v_response) with the default
\* min_length and max_repetition
CheckValid ==
  /\ v_result = NotRun
  /\ v_check = NoCheck
  /\ v_check' =
       [op |-> "is_valid_response",
        valid |-> IsValidResponse(v_response, DefaultMinLength, DefaultMaxRepetition),
        decided_by |-> FirstFailedCheck(v_response, DefaultMinLength,
                                        DefaultMaxRepetition),
        text |-> NoneValue]
  /\ UNCHANGED <<chat_vars, document_vars, v_response, v_fallback, v_result>>

\* one call ResponseValidator.sanitize_response(v_response)
Sanitize ==
  /\ v_result = NotRun
  /\ v_check = NoCheck
  /\ v_check' = [op |-> "sanitize_response", valid |-> FALSE, decided_by |-> "",
                 text |-> SanitizeResponse(v_response)]
  /\ UNCHANGED <<chat_vars, document_vars, v_response, v_fallback, v_result>>

NextValidator == Validate \/ CheckValid \/ Sanitize

SpecValidator == InitValidator /\ [][NextValidator]_vars

----------------------------------------------------------------------------
(* Properties of ChatService.ask_question *)

CallsTo(r, fn) == {i \in 1..Len(r.calls) : r.calls[i].fn = fn}

SourceLabels ==
  {<<"Course Content">>, <<"General Knowledge Fallback">>, <<"General Knowledge">>}

\* the validated grounded answer exists and holds the sentinel phrase
SentinelSeen(r) == r.grounded # NoneValue /\ Contains(r.grounded, SENTINEL)

\* C1: whenever ask_question returns, on any path, the answer is one of the fixed
\* fallback messages or it is the sanitized form of the generator output it was
\* made from and is_valid_response accepts it; the label is one of the three
C1_ReturnedAnswerValidated ==
  req.pc = "returned" =>
    /\ req.sources \in SourceLabels
    /\ \/ req.answer \in {RAG_FALLBACK_MESSAGE, GENERIC_APOLOGY}
       \/ /\ req.answer = SanitizeResponse(req.gen_out)
          /\ IsValidResponse(req.answer, DefaultMinLength, DefaultMaxRepetition)

\* a returned answer that differs from the raw generator output it came from
C1_Witness ==
  /\ req.pc = "returned"
  /\ req.sources = <<"General Knowledge">>
  /\ req.gen_out = ANSWER_MESSY
  /\ req.answer # req.gen_out
  /\ req.answer \notin {RAG_FALLBACK_MESSAGE, GENERIC_APOLOGY}

\* C2: once the validated grounded answer holds the sentinel, the general
\* generator is called exactly once, after the grounded call, and its validated
\* result is returned labelled "General Knowledge Fallback"; when the validated
\* grounded answer does not hold the sentinel, the general generator is not called
\* and the label is "Course Content"
C2_SentinelFallbackExactlyOnce ==
  req.grounded # NoneValue =>
    IF SentinelSeen(req)
    THEN /\ Cardinality(CallsTo(req, "get_general_response")) = 1
         /\ \A i \in CallsTo(req, "get_answer"), j \in CallsTo(req, "get_general_response") :
              i < j
         /\ req.pc \in {"await_fallback", "returned"}
         /\ req.pc = "returned" =>
              /\ req.sources = <<"General Knowledge Fallback">>
              /\ req.answer = ValidateAndSanitize(req.gen_out, NoneValue).value
    ELSE /\ CallsTo(req, "get_general_response") = {}
         /\ req.pc = "returned"
         /\ req.sources = <<"Course Content">>

\* C3: when the grounded call raises, the general generator is called and the
\* result is returned labelled "General Knowledge Fallback"
C3_GroundedErrorLabelledFallback ==
  req.error = "get_answer" =>
    /\ CallsTo(req, "get_general_response") # {}
    /\ req.pc = "returned" => req.sources = <<"General Knowledge Fallback">>

\* C4: with no retriever attached get_answer is never called, the general
\* generator is called exactly once and the label is "General Knowledge"; and
\* "General Knowledge" labels only answers made without any grounded call
C4_GeneralKnowledgeOnlyUngrounded ==
  /\ (req.pc # "idle" /\ ~req.rag_seen) =>
       /\ CallsTo(req, "get_answer") = {}
       /\ Cardinality(CallsTo(req, "get_general_response")) = 1
       /\ req.pc = "returned" => req.sources = <<"General Knowledge">>
  /\ (req.pc = "returned" /\ req.sources = <<"General Knowledge">>) =>
       CallsTo(req, "get_answer") = {}

C6_PivotNeverTranslated ==
  req.lang = PIVOT_LANGUAGE => CallsTo(req, "translate_text") = {}

\* a pivot-language query answered from course content
C6_Witness ==
  /\ req.pc = "returned"
  /\ req.lang = PIVOT_LANGUAGE
  /\ req.rag_seen
  /\ req.sources = <<"Course Content">>
  /\ CallsTo(req, "get_answer") = {1}

\* C7: ask_question never ends by raising, and what it returns has an answer
\* text and a sources label
C7_NeverRaises ==
  /\ req.pc # "raised"
  /\ req.pc = "returned" => req.answer # NoneValue /\ req.sources \in SourceLabels

\* C8: when translate_text fails, ask_question ends by raising, having made the
\* one translator call and no grounded or general-knowledge call, and the step
\* leaves is_rag_active, rag_service and vector_store as they were
C8_TranslationFailureIsHard ==
  /\ [](req.error = "translate_text" =>
          /\ req.pc = "raised"
          /\ Len(req.calls) = 1
          /\ req.calls[1].fn = "translate_text")
  /\ [][(req.error # "translate_text" /\ req'.error = "translate_text") =>
          /\ req.pc = "await_translate"
          /\ req'.pc = "raised"
          /\ req'.calls = req.calls
          /\ UNCHANGED <<is_rag_active, rag_service, vector_store>>]_vars

\* a request ended by the translator's failure
C8_Witness ==
  /\ req.pc = "raised"
  /\ req.error = "translate_text"
  /\ req.lang # PIVOT_LANGUAGE
  /\ is_rag_active

\* C9: when the general-knowledge call fails (the API call raises), ask_question
\* returns the fixed apology, which is valid, labelled "General Knowledge
\* Fallback" after a sentinel and "General Knowledge" otherwise
C9_GeneratorFailureBecomesApology ==
  req.api_raised =>
    /\ req.pc = "returned"
    /\ req.answer = LLM_ERROR_MESSAGE
    /\ IsValidResponse(req.answer, DefaultMinLength, DefaultMaxRepetition)
    /\ req.sources = IF SentinelSeen(req) THEN <<"General Knowledge Fallback">>
                     ELSE <<"General Knowledge">>

----------------------------------------------------------------------------
(* Properties of ResponseValidator *)

\* C10: validate_and_sanitize never raises, whatever it is given (None
\* included): it returns the sanitized response when that is valid, else the
\* fallback message when one was given, else the generic apology
C10_ValidateAndSanitizeTotal ==
  v_result.called =>
    /\ ~v_result.raised
    /\ LET sanitized == SanitizeResponse(v_response)
       IN  v_result.value =
             IF IsValidResponse(sanitized, DefaultMinLength, DefaultMaxRepetition)
             THEN sanitized
             ELSE IF v_fallback # NoneValue /\ v_fallback # <<>>
             THEN v_fallback
             ELSE GENERIC_APOLOGY

----------------------------------------------------------------------------
(* Properties of ChatService.update_with_course_content *)

\* an update_with_course_content call has ended and its caller has the outcome
UpdateEnded == upd.pc \in {"returned", "raised"}

\* the coordinator fields as a record, to compare with upd.state0
CoordinatorState ==
  [is_rag_active |-> is_rag_active, rag_service |-> rag_service,
   vector_store |-> vector_store]

\* C11: update_with_course_content is all-or-nothing: after a call either the
\* chunks are all in the store and is_rag_active is true with vector_store and
\* rag_service attached, or is_rag_active, rag_service and vector_store are as
\* before the call; no call leaves a vector_store attached while is_rag_active
\* is false
C11_UpdateAllOrNothing ==
  UpdateEnded =>
    /\ \/ /\ upd.pc = "returned"
          /\ upd.chunks \subseteq index
          /\ is_rag_active
          /\ vector_store # "None"
          /\ rag_service # "None"
       \/ CoordinatorState = upd.state0
    /\ ~(vector_store # "None" /\ ~is_rag_active)

\* C12: ingested content is never silently lost: when update_with_course_content
\* returns normally for course data that yields a document, its chunks are in
\* the shared vector store; when they could not be added (add_documents raised,
\* no store obtainable, malformed course data) the call raises
C12_IngestedContentNeverLost ==
  /\ (upd.pc = "returned" /\ upd.chunks # {}) => upd.chunks \subseteq index
  /\ (UpdateEnded /\ (upd.failed # "" \/ upd.no_store)) => upd.pc = "raised"

\* C13: calling update_with_course_content twice in a row with the same course
\* data, from a coordinator with or without an attached index, returns normally
\* both times, and after each call is_rag_active is true and the index holds the
\* chunks of that course data.  Stated for every call in which no collaborator
\* raised: the first call (upd.repeat false) and the repeated one (upd.repeat true)
C13_DoubleIngestIdempotent ==
  (UpdateEnded /\ upd.failed = "" /\ upd.chunks # {}) =>
    /\ upd.pc = "returned"
    /\ is_rag_active
    /\ upd.chunks \subseteq index

\* C14: retrieval availability is monotone: under any interleaving of
\* ask_question and update_with_course_content steps, successful or failing,
\* is_rag_active never goes from true to false; after construction it goes from
\* false to true only when the first-time attachment of an ingestion completes
\* with its chunks added
C14_AvailabilityMonotone ==
  [][/\ is_rag_active => is_rag_active'
     /\ (~is_rag_active /\ is_rag_active') =>
          /\ upd.pc = "activate" /\ upd'.pc = "returned"
          /\ upd.first
          /\ vector_store # "None" /\ rag_service' # "None"
          /\ upd.chunks \subseteq index]_vars

\* retrieval was switched on by an ingestion while an ask_question was in flight
C14_Witness ==
  /\ is_rag_active
  /\ upd.pc = "returned"
  /\ ~upd.state0.is_rag_active
  /\ req.pc \notin {"idle", "returned", "raised"}

\* C15: ingestion is applied to the shared index as an atomic commit: a
\* retrieval of ask_question that runs while an update_with_course_content call
\* is in flight, or after it ended, reads either the complete pre-ingestion
\* index or the complete post-ingestion index, never only a part of the
\* ingested chunks
C15_IngestionAtomic ==
  req.retrieved => ~req.torn

----------------------------------------------------------------------------
(* Properties of AudioService.stream_audio_from_text *)

\* the websocket object shows a closed or closing connection
WebsocketClosedOrClosing(websocket) ==
  /\ websocket.given
  /\ ~websocket.raises
  /\ \/ websocket.has_closed /\ websocket.closed
     \/ websocket.has_state /\ websocket.state \in {2, 3}

\* the stream failed and the client is gone: the error is classified as a normal
\* disconnection, or the websocket is closed or closing
ClientDisconnectedMidStream ==
  /\ audio.error_msg # NoneValue
  /\ \/ IsNormalDisconnection(audio.error_msg)
     \/ WebsocketClosedOrClosing(audio.websocket)

SignatureOnlySpecial(s) ==
  Len(s) >= OnlySpecialMinLen /\ \A i \in 1..Len(s) : ~IsAlpha(s[i]) /\ s[i] \notin Digits

\* (b) some character stands at least 20 times in a row
SignatureSameCharRun(s) ==
  \E i \in 1..(Len(s) - SameCharMinRepeats + 1) :
    \A j \in 0..(SameCharMinRepeats - 1) : s[i + j] = s[i]

\* (c) the text holds a run of at least 50 characters outside the allow-listed
\* letter ranges
SignatureNoReadableRun(s) ==
  \E i \in 1..(Len(s) - NoReadableMinLen + 1) :
    \A j \in 0..(NoReadableMinLen - 1) : ~IsReadableChar(s[i + j])

\* C17: is_valid_response returns false for every text that matches a garbage
\* signature: (a) only non-alphanumeric characters and length at least 10,
\* (b) one character at least 20 times in a row, (c) a run of at least 50
\* characters outside the allow-listed letter ranges
C17_GarbageSignaturesRejected ==
  (v_check.op = "is_valid_response" /\ v_response # NoneValue) =>
    ((\/ SignatureOnlySpecial(v_response)
      \/ SignatureSameCharRun(v_response)
      \/ SignatureNoReadableRun(v_response)) => ~v_check.valid)

\* the number of whitespace-delimited tokens of a text
WordCount(s) == Len(Split(s))

\* some token (lower-cased, stripped of .,!?;: at both ends, longer than 3)
\* occurs more than DefaultMaxRepetition times and more than 0.3 times the
\* number of tokens
RepetitiveToken(s) ==
  \E w \in {NormWord(Split(s)[i]) : i \in 1..WordCount(s)} :
    LET count == Cardinality({i \in 1..WordCount(s) : NormWord(Split(s)[i]) = w})
    IN  /\ Len(w) > 3
        /\ count > DefaultMaxRepetition
        /\ count * 10 > WordCount(s) * 3

\* the 25-word response that repeats one 5-letter word 15 times
TEXT_25_WORDS == RepeatedWords(WORD_HELLO, 15, WORD_FILLER, 10)

\* validate_and_sanitize returns the fallback message for the 25-word response
RepetitiveExampleFallsBack ==
  (v_result.called /\ v_response = TEXT_25_WORDS) =>
    /\ ~v_result.raised
    /\ v_result.value = IF v_fallback # NoneValue /\ v_fallback # <<>>
                        THEN v_fallback ELSE GENERIC_APOLOGY

\* C18 as stated: is_valid_response returns false for every text, of any word
\* count, that has a repetitive token; the 25-word response repeating one
\* 5-letter word 15 times makes validate_and_sanitize return the fallback message
C18_RepetitionRejectedAnyWordCount ==
  /\ (v_check.op = "is_valid_response" /\ v_response # NoneValue) =>
       (RepetitiveToken(v_response) => ~v_check.valid)
  /\ RepetitiveExampleFallsBack

\* C18 amended: is_valid_response returns false for every text of more than 10
\* tokens that has a repetitive token; a text of 10 tokens or fewer is never
\* rejected for repetition; the 25-word response repeating one 5-letter word 15
\* times makes validate_and_sanitize return the fallback message
C18_RepetitionRejectedAboveTenWords ==
  /\ (v_check.op = "is_valid_response" /\ v_response # NoneValue) =>
       /\ (WordCount(v_response) > MinWordsForRepetition
             /\ RepetitiveToken(v_response)) => ~v_check.valid
       /\ WordCount(v_response) <= MinWordsForRepetition =>
            v_check.decided_by # "repetition"
       /\ v_check.decided_by = "repetition" => RepetitiveToken(v_response)
  /\ RepetitiveExampleFallsBack

\* an 11-word text with one word 6 times was rejected for repetition
C18_Witness ==
  /\ v_check.op = "is_valid_response"
  /\ v_response = RepeatedWords(WORD_HELLO_PUNCT, 6, WORD_FILLER, 5)
  /\ ~v_check.valid
  /\ v_check.decided_by = "repetition"

----------------------------------------------------------------------------
(* Properties of ResponseValidator.sanitize_response *)

\* the characters of s that are neither whitespace nor one of ! ? .
PlainChars(s) == SelectSeq(s, LAMBDA c : ~IsSpace(c) /\ ~IsRepeatPunct(c))

\* position i starts a maximal run of ! ? . characters in s
StartsPunctRun(s, i) == IsRepeatPunct(s[i]) /\ (i = 1 \/ ~IsRepeatPunct(s[i - 1]))

\* the maximal runs of ! ? . characters of s, in order
PunctRuns(s) ==
  Flatten([i \in 1..Len(s) |->
             IF StartsPunctRun(s, i) THEN <<SubSeq(s, i, PunctRunEnd(s, i))>> ELSE <<>>],
          1, Len(s))

\* s with its whitespace removed and every punctuation run cut to one mark "."
Skeleton(s) ==
  Flatten([i \in 1..Len(s) |->
             IF IsSpace(s[i]) THEN <<>>
             ELSE IF IsRepeatPunct(s[i])
             THEN (IF StartsPunctRun(s, i) THEN <<".">> ELSE <<>>)
             ELSE <<s[i]>>],
          1, Len(s))

\* C19: for every input text sanitize_response returns a text with no two
\* consecutive whitespace characters, no leading or trailing whitespace and no
\* run of 4 or more characters from ! ? .; runs of 1 to 3 such characters and
\* all other non-whitespace characters are preserved unchanged and in order
C19_SanitizeNormalises ==
  (v_check.op = "sanitize_response" /\ v_response # NoneValue) =>
    LET out == v_check.text
    IN  /\ \A i \in 1..(Len(out) - 1) : ~(IsSpace(out[i]) /\ IsSpace(out[i + 1]))
        /\ out # <<>> => ~IsSpace(out[1]) /\ ~IsSpace(out[Len(out)])
        /\ \A i \in 1..Len(out) : IsSpace(out[i]) => out[i] = " "
        /\ \A k \in 1..Len(PunctRuns(out)) : Len(PunctRuns(out)[k]) <= PunctRunCap
        /\ PlainChars(out) = PlainChars(v_response)
        /\ Len(PunctRuns(out)) = Len(PunctRuns(v_response))
        /\ \A k \in 1..Len(PunctRuns(v_response)) :
             Len(PunctRuns(v_response)[k]) <= PunctRunCap =>
               PunctRuns(out)[k] = PunctRuns(v_response)[k]
        /\ Skeleton(out) = Skeleton(v_response)
        /\ WordCount(out) = WordCount(v_response)

\* a text with doubled spaces, a short and a long punctuation run was sanitized
C19_Witness ==
  /\ v_check.op = "sanitize_response"
  /\ v_response = TEXT_MIXED_PUNCT
  /\ v_check.text # v_response

----------------------------------------------------------------------------
(* Properties of ResponseValidator.is_valid_response *)

\* the length of a text after trimming whitespace; 0 for None and the empty text
TrimmedLength(response) ==
  IF response = NoneValue THEN 0 ELSE Len(Strip(response))

\* C20: is_valid_response returns false for every text (the empty text and None
\* included) whose length after trimming whitespace is below min_length (5), and
\* that is decided by the emptiness and length checks, before any other check;
\* the plain sentence "hello world this is fine" is valid
C20_TooShortRejectedFirst ==
  v_check.op = "is_valid_response" =>
    /\ TrimmedLength(v_response) < DefaultMinLength =>
         /\ ~v_check.valid
         /\ v_check.decided_by \in {"empty", "too_short"}
    /\ v_check.decided_by \in {"empty", "too_short"} =>
         TrimmedLength(v_response) < DefaultMinLength
    /\ v_check.valid <=> v_check.decided_by = "valid"
    /\ v_response = TEXT_PLAIN => v_check.valid

\* a text of 21 spaces and one letter, which the same-character pattern would
\* match, was rejected as too short
C20_Witness ==
  /\ v_check.op = "is_valid_response"
  /\ v_response = Rep(" ", 21) \o Rep("a", 1)
  /\ MatchesGarbage(v_response)
  /\ ~v_check.valid
  /\ v_check.decided_by = "too_short"

----------------------------------------------------------------------------
(* Properties of the validation of the grounded answer in ask_question *)

\* the text rag_service.get_answer returned fails validation: its sanitized
\* form is rejected by is_valid_response
GroundedAnswerInvalid(out) ==
  /\ out # NoneValue
  /\ ~IsValidResponse(SanitizeResponse(out), DefaultMinLength, DefaultMaxRepetition)

StreamFailedWhileConnected ==
  /\ audio.error_msg # NoneValue
  /\ \/ ~audio.websocket.given
     \/ ~audio.websocket.raises /\ ~WebsocketClosedOrClosing(audio.websocket)

\* the positions of the whole-audio fallback chunk among the yielded chunks
FallbackChunks == {i \in 1..Len(audio.yielded) : audio.yielded[i] = "fallback"}

\* C22: a streaming error is handled as a disconnect only when the client has
\* disconnected: every failure raised while the client is connected (or without
\* a websocket), whatever its message, leads to one ultra-fast fallback attempt
\* whose non-empty result is yielded as a single chunk, and a failure of that
\* fallback ends the stream without raising
C22_FailureWhileConnectedFallsBack ==
  StreamFailedWhileConnected =>
    /\ audio.fallback_called
    /\ audio.pc \in {"await_fallback", "ended"}
    /\ ~audio.raised
    /\ audio.pc = "ended" =>
         Cardinality(FallbackChunks) = IF audio.fallback_buffer = "audio" THEN 1 ELSE 0

----------------------------------------------------------------------------
(* Properties of the ChatService fields *)

\* C23: in every reachable state, every intermediate point of
\* update_with_course_content interleaved with ask_question included,
\* is_rag_active implies that rag_service is attached; hence get_answer is
\* never called on a missing rag_service
C23_ActiveImpliesRagServiceAttached ==
  /\ is_rag_active => rag_service # "None"
  /\ req.pc = "await_rag" => rag_service # "None"

\* an ingestion is between the assignment of rag_service and that of
\* is_rag_active while an ask_question is in flight
C23_Witness ==
  /\ upd.pc = "activate"
  /\ upd.first
  /\ vector_store # "None"
  /\ rag_service # "None"
  /\ ~is_rag_active
  /\ req.pc \notin {"idle", "returned", "raised"}

\* C24: for one text the consumer receives either streamed chunks or the single
\* whole-audio fallback chunk, never both: once a streamed chunk has been
\* yielded, no fallback chunk is yielded afterwards
C24_StreamedOrFallbackNeverBoth ==
  \A i, j \in 1..Len(audio.yielded) :
    (i < j /\ audio.yielded[i] = "streamed") => audio.yielded[j] # "fallback"

----------------------------------------------------------------------------
(* C25 *)

\* C25: however the process_uploaded_pdfs runs of the concurrent workers
\* follow each other or interleave, no two courses they returned have the same
\* course_id, and no two courses in the saved courses file have the same
\* course_id.
C25_CourseIdsUnique ==
  LET DistinctCourseIds(courses) ==
        \A i, j \in 1..Len(courses) :
          i # j => courses[i].course_id # courses[j].course_id
  IN  /\ DistinctCourseIds(returned_courses)
      /\ DistinctCourseIds(courses_file)

====
